---- MODULE Spec2Model ----
(***************************************************************************)
(* Model of cclient/http/http.c: iota_service_query, the retry loop around *)
(* cclient_socket_send, the request writer (http_request_header,           *)
(* http_request_data) and the response reader (http_response_read with the *)
(* three http_parser callbacks).                                           *)
(*                                                                         *)
(* Bytes are abstracted to framing classes.  A response byte is one of     *)
(*   Hdr      a byte of the status line / header section, not its last,    *)
(*   Eoh(n)   the last byte of a header section that declares              *)
(*            Content-Length n (n = UINT64_MAX: no finite length),         *)
(*   Bad      a byte that violates the framing grammar where one is        *)
(*            expected (inside a body every byte is body data).            *)
(* http_parser (an external library) is modelled by what it does with      *)
(* these classes for an HTTP/1.1 response carrying Content-Length.         *)
(***************************************************************************)
EXTENDS Integers, Sequences, FiniteSets, TLC

\* ---------------------------------------------------------------- bounds
\* Retry ceiling and receive-buffer size are macros of headers that are not
\* part of the sources; they are scaled down here.
CCLIENT_SOCKET_RETRY == 1
RECEIVE_BUFFER_SIZE == 2
\* Largest finite Content-Length a response declares.
MaxContentLength == 2
\* Most bytes the transport delivers within one attempt of a whole query
\* (Spec), and to a reader run on its own (SpecReader).
MaxRecv == 2
MaxStream == 5
\* Longest request body.
MaxBody == 2

\* parser->content_length when no Content-Length header was seen (line 61)
UINT64_MAX == MaxContentLength + 1

\* ---------------------------------------------------------------- bytes
Hdr == [k |-> "hdr", n |-> 0]
Bad == [k |-> "bad", n |-> 0]
Nul == [k |-> "nul", n |-> 0]
Eoh(n) == [k |-> "eoh", n |-> n]
Bytes == {Hdr, Bad} \cup {Eoh(n) : n \in 0..UINT64_MAX}

Min(a, b) == IF a < b THEN a ELSE b
Max(a, b) == IF a > b THEN a ELSE b

\* ------------------------------------------------------- request framing
\* header_template filled in by sprintf: the fixed fields, then the
\* Content-Length field carrying data_length.
header_template(data_length) ==
    << [k |-> "fields", n |-> 0], [k |-> "content-length", n |-> data_length] >>

\* obj->data for a body of len bytes (distinct bytes, so order is visible)
BodyOf(len) == [i \in 1..len |-> [k |-> "body", n |-> i]]

\* Results mbedtls_socket_send may give for a request of size bytes:
\* a negative error (-1 or another negative code) or a count 0..size.
SendResults(size) == {-2, -1} \cup (0..size)

\* ------------------------------------------------ response buffer, context
\* char_buffer_t as handed in by the caller: nothing allocated.
EmptyBuffer == [length |-> 0, data |-> << >>]

\* char_buffer_allocate(response, n): the buffer gets n fresh cells.
char_buffer_allocate(buf, n) == [length |-> n, data |-> [i \in 1..n |-> Nul]]

\* struct _response_ctx together with the buffer it points to; why, oob and
\* allocs are bookkeeping: the reason of an error status, whether memcpy
\* wrote outside the allocation, and how often the buffer was allocated.
NewContext(buf) ==
    [offset |-> 0, status |-> "IOTA_REQUEST_STATUS_OK", response |-> buf,
     why |-> "none", oob |-> FALSE, allocs |-> 0]

\* request_parse_header_complete: c is the context, data_len the parser's
\* content_length, alloc_ok whether char_buffer_allocate returns RC_OK.
\* Result: the context and the callback's return value.
request_parse_header_complete(c, data_len, alloc_ok) ==
    IF data_len = UINT64_MAX
    THEN [ctx |-> [c EXCEPT !.status = "IOTA_REQUEST_STATUS_ERROR",
                            !.why = "undeclared"],
          rc |-> -1]
    ELSE IF ~alloc_ok
    THEN [ctx |-> [c EXCEPT !.status = "IOTA_REQUEST_STATUS_ERROR",
                            !.why = "alloc"],
          rc |-> -1]
    ELSE [ctx |-> [c EXCEPT !.response = char_buffer_allocate(c.response, data_len),
                            !.offset = 0,
                            !.allocs = c.allocs + 1],
          rc |-> 0]

\* memcpy(response->data + offset, at, length): cells inside the allocation
\* take the bytes, a write outside it is recorded in oob.
Memcpy(data, offset, at) ==
    [i \in 1..Len(data) |->
        IF i > offset /\ i <= offset + Len(at) THEN at[i - offset] ELSE data[i]]

request_parse_data_noadvance(c, at, length) ==
    [c EXCEPT !.response.data = Memcpy(c.response.data, c.offset, at),
              !.oob = c.oob \/ (c.offset + length > c.response.length)]

request_parse_data(c, at, length) ==
    [c EXCEPT !.response.data = Memcpy(c.response.data, c.offset, at),
              !.oob = c.oob \/ (c.offset + length > c.response.length),
              !.offset = c.offset + length]

request_parse_message_complete(c) ==
    [c EXCEPT !.status = "IOTA_REQUEST_STATUS_DONE"]

\* ------------------------------------------------------------ http_parser
\* http_parser_init(&parser, HTTP_RESPONSE)
http_parser_init ==
    [state |-> "s_start_res", content_length |-> UINT64_MAX, err |-> FALSE]

\* http_parser_execute on chunk from position i on.  m = [parser, ctx,
\* parsed]; fail_at is the position whose allocation fails (0: none).
\*  - in the header section Hdr is consumed, Eoh(n) fires on_headers_complete
\*    and, for n = 0, on_message_complete; anything else is a parse error;
\*    an error (also a callback returning non-zero) stops the parser with
\*    the offending byte not counted as parsed;
\*  - in the body (s_body_identity) min(content_length, bytes left) bytes go
\*    to on_body in one call; when content_length reaches 0
\*    on_message_complete fires and the parser is ready for the next message
\*    of a keep-alive connection (s_start_res).
RECURSIVE http_parser_execute(_, _, _, _)
http_parser_execute(m, chunk, i, fail_at) ==
    IF i > Len(chunk) \/ m.parser.err THEN m
    ELSE IF m.parser.state = "s_start_res"
    THEN CASE chunk[i].k = "hdr" ->
                http_parser_execute(
                  [m EXCEPT !.parser.content_length = UINT64_MAX, !.parsed = i],
                  chunk, i + 1, fail_at)
           [] chunk[i].k = "eoh" ->
                LET cb == request_parse_header_complete(m.ctx, chunk[i].n, i # fail_at)
                IN  IF cb.rc # 0
                    THEN [m EXCEPT !.ctx = cb.ctx, !.parser.err = TRUE,
                                   !.parser.content_length = chunk[i].n]
                    ELSE IF chunk[i].n = 0
                    THEN http_parser_execute(
                           [m EXCEPT !.ctx = request_parse_message_complete(cb.ctx),
                                     !.parser.content_length = 0,
                                     !.parsed = i],
                           chunk, i + 1, fail_at)
                    ELSE http_parser_execute(
                           [m EXCEPT !.ctx = cb.ctx,
                                     !.parser.state = "s_body_identity",
                                     !.parser.content_length = chunk[i].n,
                                     !.parsed = i],
                           chunk, i + 1, fail_at)
           [] OTHER ->
                [m EXCEPT !.parser.err = TRUE, !.ctx.why = "parse"]
    ELSE \* s_body_identity
         LET to_read == Min(m.parser.content_length, Len(chunk) - i + 1)
             at      == SubSeq(chunk, i, i + to_read - 1)
             c1      == request_parse_data(m.ctx, at, to_read)
             left    == m.parser.content_length - to_read
         IN  IF left = 0
             THEN http_parser_execute(
                    [m EXCEPT !.ctx = request_parse_message_complete(c1),
                              !.parser.state = "s_start_res",
                              !.parser.content_length = 0,
                              !.parsed = i + to_read - 1],
                    chunk, i + to_read, fail_at)
             ELSE [m EXCEPT !.ctx = c1,
                            !.parser.content_length = left,
                            !.parsed = i + to_read - 1]


\* ------------------------------------------------------------------ state
VARIABLES
    pc,               \* position: idle, connect, header, data, recv, close, loop, done
    nullarg,          \* which argument of iota_service_query is NULL ("none")
    obj_len,          \* obj->length, the request body is BodyOf(obj_len)
    ret,              \* iota_service_query: ret
    retry,            \* iota_service_query: retry
    result,           \* cclient_socket_send: result
    ptr,              \* http_request_data: ptr - data
    data_length,      \* http_request_data: data_length
    parser,           \* http_response_read: parser
    response_context, \* http_response_read: response_context and *response
    sock_open,        \* the transport of the current attempt is connected
    attempts,         \* calls of cclient_socket_send so far
    sent,             \* bytes the transport reported as sent in this attempt
    received,         \* bytes the transport delivered in this attempt
    send_failed,      \* a send of this attempt returned a negative result
    cause,            \* why this attempt ended
    prev,             \* cause of the previous attempt
    ops,              \* operations this attempt has called on the transport
    closes,           \* calls of mbedtls_socket_close in this attempt
    stalled           \* the transport takes no more bytes: every send gives 0

vars == << pc, nullarg, obj_len, ret, retry, result, ptr, data_length, parser,
           response_context, sock_open, attempts, sent, received, send_failed,
           cause, prev, ops, closes, stalled >>

\* the caller's response buffer
response == response_context.response

Init ==
    /\ pc = "idle"
    /\ nullarg \in {"none", "service_opaque", "obj", "response"}
    /\ obj_len \in 0..MaxBody
    /\ ret = "RC_OK"
    /\ retry = 0
    /\ result = "RC_ERROR"
    /\ ptr = 0
    /\ data_length = 0
    /\ parser = http_parser_init
    /\ response_context = NewContext(EmptyBuffer)
    /\ sock_open = FALSE
    /\ attempts = 0
    /\ sent = << >>
    /\ received = << >>
    /\ send_failed = FALSE
    /\ cause = "none"
    /\ prev = "none"
    /\ ops = {}
    /\ closes = 0
    /\ stalled = FALSE

\* ------------------------------------------------------ iota_service_query
NullParam_ResponseUnchecked(a) == a \in {"service_opaque", "obj"}

\* line 199: !service_opaque || !obj || !response
NullParam(a) == a \in {"service_opaque", "obj", "response"}

\* lines 199-201: a NULL argument
QueryNull ==
    /\ pc = "idle"
    /\ NullParam(nullarg)
    /\ ret' = "RC_NULL_PARAM"
    /\ pc' = "done"
    /\ UNCHANGED << nullarg, obj_len, retry, result, ptr, data_length, parser,
                    response_context, sock_open, attempts, sent, received,
                    cause, prev, send_failed,
                    ops, closes, stalled >>

\* entry of cclient_socket_send (lines 173-174): a new attempt
StartAttempt ==
    /\ pc' = "connect"
    /\ result' = "RC_ERROR"
    /\ attempts' = attempts + 1
    /\ sent' = << >>
    /\ received' = << >>
    /\ send_failed' = FALSE
    /\ prev' = cause
    /\ cause' = "none"
    /\ ops' = {}
    /\ closes' = 0
    /\ stalled' = FALSE

\* line 203: the first call of cclient_socket_send
QueryFirst ==
    /\ pc = "idle"
    /\ ~NullParam(nullarg)
    /\ StartAttempt
    /\ UNCHANGED << nullarg, obj_len, ret, retry, ptr, data_length, parser,
                    response_context, sock_open >>

RetryWanted_AnyFailure(r, n) == r # "RC_OK" /\ ~(n > CCLIENT_SOCKET_RETRY)

\* the test of the retry loop, lines 205-208
RetryWanted(r, n) == r = "RC_UTILS_SOCKET_RECV" /\ ~(n > CCLIENT_SOCKET_RETRY)

\* lines 205-209: loop test passed, cclient_socket_send is called again
QueryRetry ==
    /\ pc = "loop"
    /\ RetryWanted(ret, retry)
    /\ StartAttempt
    /\ UNCHANGED << nullarg, obj_len, ret, retry, ptr, data_length, parser,
                    response_context, sock_open >>

\* lines 205-208, 212: loop left, ret is returned
QueryReturn ==
    /\ pc = "loop"
    /\ ~RetryWanted(ret, retry)
    /\ pc' = "done"
    /\ UNCHANGED << nullarg, obj_len, ret, retry, result, ptr, data_length,
                    parser, response_context, sock_open, attempts, sent,
                    received, cause, prev, send_failed,
                    ops, closes, stalled >>

\* ----------------------------------------------------- cclient_socket_send
\* lines 180-182: mbedtls_socket_connect gave a descriptor
ConnectOk ==
    /\ pc = "connect"
    /\ sock_open' = TRUE
    /\ pc' = "header"
    /\ ops' = ops \cup {"connect"}
    /\ UNCHANGED << nullarg, obj_len, ret, retry, result, ptr, data_length,
                    parser, response_context, attempts, sent, received,
                    cause, prev, send_failed,
                    closes, stalled >>

\* lines 180-182, 190-192: mbedtls_socket_connect failed
ConnectFail ==
    /\ pc = "connect"
    /\ result' = "RC_UTILS_SOCKET_CONNECT"
    /\ cause' = "connect"
    /\ pc' = "close"
    /\ ops' = ops \cup {"connect"}
    /\ UNCHANGED << nullarg, obj_len, ret, retry, ptr, data_length, parser,
                    response_context, sock_open, attempts, sent, received,
                    prev, send_failed,
                    closes, stalled >>

\* the bytes of a request of which the transport took n (none on an error)
Taken(bytes, n) == SubSeq(bytes, 1, Max(n, 0))

\* line 183: the test on what http_request_header returned
HeaderSendOk(num_sent) == num_sent # -1

DataEntry_Resume(len) == [ptr |-> ptr, data_length |-> len - ptr]

\* lines 107-108: http_request_data starts at the first byte of data
DataEntry(len) == [ptr |-> 0, data_length |-> len]

\* http_request_header (lines 92-97) and the test of line 183: one send of
\* the whole header; unless it returned -1, http_request_data starts
\* (line 108) with the whole body to send.
RequestHeader ==
    /\ pc = "header"
    /\ \E num_sent \in SendResults(Len(header_template(obj_len))) :
          /\ sent' = sent \o Taken(header_template(obj_len), num_sent)
          /\ send_failed' = (num_sent < 0)
          /\ IF HeaderSendOk(num_sent)
             THEN /\ ptr' = DataEntry(obj_len).ptr
                  /\ data_length' = DataEntry(obj_len).data_length
                  /\ pc' = "data"
                  /\ UNCHANGED << result, cause >>
             ELSE /\ result' = "RC_CCLIENT_HTTP_REQ"
                  /\ cause' = "send"
                  /\ pc' = "close"
                  /\ UNCHANGED << ptr, data_length >>
    /\ ops' = ops \cup {"send_header"}
    /\ UNCHANGED << nullarg, obj_len, ret, retry, parser, response_context,
                    sock_open, attempts, received, prev,
                    closes, stalled >>

BodyLeft_OffByOne(n) == n > 1

\* line 109: the test of the send loop
BodyLeft(n) == n > 0

\* http_request_data, one iteration of the loop of lines 109-116.  A send
\* that took nothing may be the first of a transport that takes nothing any
\* more (stalled); such a transport answers every send with 0.
RequestData ==
    /\ pc = "data"
    /\ BodyLeft(data_length)
    /\ \E num_sent \in (IF stalled THEN {0} ELSE SendResults(data_length)) :
          IF num_sent < 0
          THEN /\ result' = "RC_UTILS_SOCKET_SEND"
               /\ send_failed' = TRUE
               /\ cause' = "send"
               /\ pc' = "close"
               /\ UNCHANGED << ptr, data_length, sent, stalled >>
          ELSE /\ sent' = sent \o SubSeq(BodyOf(obj_len), ptr + 1, ptr + num_sent)
               /\ ptr' = ptr + num_sent
               /\ data_length' = data_length - num_sent
               /\ stalled' \in (IF num_sent = 0 THEN {stalled, TRUE} ELSE {FALSE})
               /\ UNCHANGED << result, cause, pc, send_failed >>
    /\ ops' = ops \cup {"send_data"}
    /\ UNCHANGED << nullarg, obj_len, ret, retry, parser, response_context,
                    sock_open, attempts, received, prev,
                    closes >>

\* http_request_data returns RC_OK (line 117) and http_response_read sets up
\* its parser and context (lines 128-145)
RequestDataDone ==
    /\ pc = "data"
    /\ ~BodyLeft(data_length)
    /\ result' = "RC_OK"
    /\ parser' = http_parser_init
    /\ response_context' = NewContext(response)
    /\ pc' = "recv"
    /\ UNCHANGED << nullarg, obj_len, ret, retry, ptr, data_length, sock_open,
                    attempts, sent, received, cause, prev, send_failed,
                    ops, closes, stalled >>

AfterLoop_EofIsOk(num_received) ==
    IF num_received < 0 THEN "RC_CCLIENT_HTTP" ELSE "RC_OK"

\* lines 157-160: what http_response_read returns once the loop is left
AfterLoop(num_received) ==
    IF num_received <= 0 THEN "RC_CCLIENT_HTTP" ELSE "RC_OK"

\* line 147 failing its test and lines 157-159: mbedtls_socket_recv
\* returned an error (-1) or end of stream (0)
ResponseReadEnd ==
    /\ pc = "recv"
    /\ \E num_received \in {-1, 0} :
          /\ result' = AfterLoop(num_received)
          /\ cause' = IF num_received = 0 THEN "eof" ELSE "recv"
    /\ pc' = "close"
    /\ ops' = ops \cup {"recv"}
    /\ UNCHANGED << nullarg, obj_len, ret, retry, ptr, data_length, parser,
                    response_context, sock_open, attempts, sent, received,
                    prev, send_failed,
                    closes, stalled >>

\* lines 150-154: the tests after http_parser_execute; "" stands for
\* going round the loop again
AfterExecute(parsed, num_received, status) ==
    IF parsed < num_received \/ status = "IOTA_REQUEST_STATUS_ERROR"
    THEN "RC_UTILS_SOCKET_RECV"
    ELSE IF status = "IOTA_REQUEST_STATUS_DONE" THEN "RC_OK" ELSE ""

\* Inside a body every byte is opaque data: the transport is taken to
\* deliver only Hdr and Bad there (two values tell the bytes apart).
OpaqueBody(buf) == \A i \in 1..buf.length : buf.data[i].k # "eoh"

\* one iteration of the loop of lines 147-156: a chunk of num_received
\* bytes arrives and is given to the parser
ResponseReadChunk(limit) ==
    /\ pc = "recv"
    /\ \E num_received \in 1..Min(RECEIVE_BUFFER_SIZE, limit - Len(received)) :
       \E buffer \in [1..num_received -> Bytes] :
       \E fail_at \in 0..num_received :
          LET m == http_parser_execute(
                     [parser |-> parser, ctx |-> response_context, parsed |-> 0],
                     buffer, 1, fail_at)
              r == AfterExecute(m.parsed, num_received, m.ctx.status)
          IN  /\ OpaqueBody(m.ctx.response)
              /\ received' = received \o buffer
              /\ parser' = m.parser
              /\ response_context' = m.ctx
              /\ IF r = ""
                 THEN UNCHANGED << result, cause, pc >>
                 ELSE /\ result' = r
                      /\ cause' = IF r = "RC_OK" THEN "complete"
                                  ELSE IF m.ctx.why = "none" THEN "parse"
                                  ELSE m.ctx.why
                      /\ pc' = "close"
    /\ ops' = ops \cup {"recv"}
    /\ UNCHANGED << nullarg, obj_len, ret, retry, ptr, data_length, sock_open,
                    attempts, sent, prev, send_failed,
                    closes, stalled >>

SocketClose_NotAfterSendFailure ==
    /\ pc = "close"
    /\ sock_open' = IF send_failed THEN sock_open ELSE FALSE
    /\ ret' = result
    /\ retry' = IF attempts = 1 THEN 0 ELSE retry + 1
    /\ pc' = "loop"
    /\ ops' = IF send_failed THEN ops ELSE ops \cup {"close"}
    /\ closes' = IF send_failed THEN closes ELSE closes + 1
    /\ UNCHANGED << nullarg, obj_len, result, ptr, data_length, parser,
                    response_context, attempts, sent, received, cause, prev,
                    send_failed, stalled >>

\* lines 193-194: the transport is closed and result returned to
\* iota_service_query, which stores it (line 203 with retry = 0 of line 204,
\* or line 209 with retry++ of line 210)
SocketClose ==
    /\ pc = "close"
    /\ sock_open' = FALSE
    /\ ret' = result
    /\ retry' = IF attempts = 1 THEN 0 ELSE retry + 1
    /\ pc' = "loop"
    /\ ops' = ops \cup {"close"}
    /\ closes' = closes + 1
    /\ UNCHANGED << nullarg, obj_len, result, ptr, data_length, parser,
                    response_context, attempts, sent, received, cause, prev, send_failed,
                    stalled >>

Next ==
    \/ QueryNull
    \/ QueryFirst
    \/ QueryRetry
    \/ QueryReturn
    \/ ConnectOk
    \/ ConnectFail
    \/ RequestHeader
    \/ RequestData
    \/ RequestDataDone
    \/ ResponseReadEnd
    \/ ResponseReadChunk(MaxRecv)
    \/ SocketClose

Spec == Init /\ [][Next]_vars

\* ------------------------------------------------- the reader on its own
\* http_response_read called (line 185) in the first attempt of a query
\* whose request has an empty body; the caller's buffer is empty or still
\* holds one byte.
ReaderInit ==
    /\ pc = "recv"
    /\ nullarg = "none"
    /\ obj_len = 0
    /\ ret = "RC_OK"
    /\ retry = 0
    /\ result = "RC_OK"
    /\ ptr = 0
    /\ data_length = 0
    /\ parser = http_parser_init
    /\ response_context \in
          { NewContext(EmptyBuffer), NewContext([length |-> 1, data |-> << Hdr >>]) }
    /\ sock_open = TRUE
    /\ attempts = 1
    /\ sent = header_template(0)
    /\ received = << >>
    /\ send_failed = FALSE
    /\ cause = "none"
    /\ prev = "none"
    /\ ops = {"connect", "send_header"}
    /\ closes = 0
    /\ stalled = FALSE

ReaderNext ==
    \/ ResponseReadEnd
    \/ ResponseReadChunk(MaxStream)

SpecReader == ReaderInit /\ [][ReaderNext]_vars


\* ---------------------------------------------------- reading the stream
\* s consists of header-section bytes only
IsHdrs(s) == \A i \in 1..Len(s) : s[i].k = "hdr"

\* j is the position in s of the byte that ends the first header section
EndsHeader(s, j) ==
    /\ j \in 1..Len(s)
    /\ s[j].k = "eoh"
    /\ IsHdrs(SubSeq(s, 1, j - 1))

\* s is one well-formed response: a header section declaring a finite
\* length, then exactly that many body bytes
WellFormed(s) ==
    \E j \in 1..Len(s) :
        EndsHeader(s, j) /\ s[j].n # UINT64_MAX /\ Len(s) = j + s[j].n

\* s is the beginning of a well-formed response (or a whole one)
PrefixOfWellFormed(s) ==
    \/ IsHdrs(s)
    \/ \E j \in 1..Len(s) :
          EndsHeader(s, j) /\ s[j].n # UINT64_MAX /\ Len(s) <= j + s[j].n

\* s holds a header section declaring a finite length and more bytes after
\* it than it declares
ExcessBody(s) ==
    \E j \in 1..Len(s) :
        EndsHeader(s, j) /\ s[j].n # UINT64_MAX /\ Len(s) > j + s[j].n

\* the length the first header section of s declares
DeclaredLength(s) ==
    LET j == CHOOSE j \in 1..Len(s) : EndsHeader(s, j)
    IN  s[j].n

\* the body bytes of a well-formed response s
ExpectedBody(s) ==
    LET j == CHOOSE j \in 1..Len(s) : EndsHeader(s, j)
    IN  SubSeq(s, j + 1, Len(s))

AttemptEnded == pc \in {"close", "loop", "done"}

\* every send of this attempt succeeded and the whole request went out
RequestSent ==
    ~send_failed /\ sent = header_template(obj_len) \o BodyOf(obj_len)

\* results after which iota_service_query calls cclient_socket_send again
Retried(r) == RetryWanted(r, 0)

\* a failure that is returned to the caller at once
Fatal(r) == r # "RC_OK" /\ ~Retried(r)

\* ----------------------------------------------------------------- claims

\* C1: when every attempt ended in a retryable failure, iota_service_query
\* returns that failure after exactly CCLIENT_SOCKET_RETRY + 1 attempts.
C1_AttemptsAtCeiling ==
    (pc = "done" /\ Retried(ret) /\ RequestSent)
        => attempts = CCLIENT_SOCKET_RETRY + 1

\* C2: a failed receive (an error, or end of stream before the response is
\* complete) is retryable: it reaches the caller only when the
\* CCLIENT_SOCKET_RETRY retries are used up, never while retries remain.
C2_ReceiveFailureRetried ==
    (pc = "done" /\ cause \in {"eof", "recv"} /\ RequestSent)
        => attempts >= CCLIENT_SOCKET_RETRY + 1

\* C3: an attempt whose reader ended in a fatal failure (malformed framing,
\* no finite declared length) is never followed by another attempt.
C3_FatalNotRetried ==
    (attempts > 1 /\ pc = "recv" /\ RequestSent)
        => prev \notin {"parse", "undeclared"}

\* C4: the bytes written never exceed the capacity, and an attempt that is
\* given more body bytes than the declared length writes none of the excess
\* and ends in the fatal Overflow failure.
C4_OverflowIsFatal ==
    /\ response_context.offset <= response.length
    /\ ~response_context.oob
    /\ (pc = "close" /\ cause \in {"complete", "parse"} /\ ExcessBody(received)
            /\ DeclaredLength(received) > 0)
          => Fatal(result)

\* C5: once a send returned a negative result the attempt sends and
\* receives no more, and the call ends with a send failure, not retried.
C5_SendFailureAborts ==
    send_failed =>
        /\ AttemptEnded
        /\ result \in {"RC_CCLIENT_HTTP_REQ", "RC_UTILS_SOCKET_SEND"}
        /\ ~Retried(result)

\* C6: when iota_service_query returns RC_OK the response buffer is full:
\* the bytes written are as many as the buffer holds.
C6_OkIsFull ==
    (pc = "done" /\ ret = "RC_OK" /\ RequestSent) =>
        /\ response_context.offset = response.length
        /\ \A i \in 1..response.length : response.data[i] # Nul

\* C7: when the transport reports end of stream the response has not been
\* delivered in full (fewer body bytes than declared, or the header section
\* has not ended), and the attempt ends in RC_CCLIENT_HTTP, never in RC_OK.
C7_PrematureClose ==
    (AttemptEnded /\ cause = "eof") =>
        /\ result = "RC_CCLIENT_HTTP"
        /\ response_context.status # "IOTA_REQUEST_STATUS_DONE"
        /\ ~WellFormed(received)

\* C7 witness: end of stream after a part of the declared body
C7_Witness ==
    /\ pc = "close"
    /\ cause = "eof"
    /\ parser.state = "s_body_identity"
    /\ response_context.offset > 0
    /\ response_context.offset < response.length

\* C8: the result returned when the header section declares no finite
\* length differs from the result returned for malformed framing (and from
\* the one of a failed receive).  ret still holds the previous attempt's
\* result while the current attempt closes.
C8_UndeclaredLengthDistinct ==
    (pc = "close" /\ attempts > 1 /\ prev = "undeclared" /\ RequestSent
        /\ cause \in {"parse", "eof", "recv"})
    => ret # result

\* C9: however a well-formed response is cut into chunks, the reader goes on
\* reading while it has a proper beginning of it, and ends with RC_OK
\* exactly on its last byte with the buffer holding its body.
C9_ChunkingIrrelevant ==
    (pc = "close" /\ cause \in {"complete", "parse", "undeclared"}
        /\ PrefixOfWellFormed(received))
    => /\ WellFormed(received)
       /\ result = "RC_OK"
       /\ response.length = Len(ExpectedBody(received))
       /\ response.data = ExpectedBody(received)
       /\ response_context.offset = response.length

\* C9 witness: a response with a header section of several bytes and a body
\* of several bytes, longer than one receive buffer, has been read
C9_Witness ==
    /\ pc = "close"
    /\ result = "RC_OK"
    /\ WellFormed(received)
    /\ Len(received) > RECEIVE_BUFFER_SIZE
    /\ received[1] = Hdr
    /\ response.length > 1
    /\ response.data[1] # response.data[2]

\* C10: when the send phase has succeeded (no send returned an error), the
\* bytes reported as sent are the whole header block followed by the whole
\* body, whatever counts the sends returned.
C10_SentIsRequest ==
    (pc = "recv" /\ ~send_failed)
        => sent = header_template(obj_len) \o BodyOf(obj_len)

\* C11: when iota_service_query returns a failure the caller's response
\* buffer holds no body byte of any attempt.
C11_FailureExposesNothing ==
    (pc = "done" /\ ret # "RC_OK" /\ RequestSent)
        => \A i \in 1..response.length : response.data[i] = Nul

\* C14: an attempt in which message-complete has fired ends with RC_OK,
\* whatever follows the message in the same chunk.
C14_CompleteStaysOk ==
    (pc = "close" /\ response_context.status = "IOTA_REQUEST_STATUS_DONE"
        /\ RequestSent)
    => result = "RC_OK"

\* C15: within one attempt the header-complete handling (allocation of the
\* buffer, offset back to 0) happens at most once.
C15_HeaderCompleteOnce ==
    (pc \in {"recv", "close"} /\ RequestSent)
        => response_context.allocs <= 1

\* C12: an attempt closes its transport exactly once, when it ends: the
\* transport is not open when an attempt starts nor when
\* iota_service_query has returned, close has not been called while the
\* attempt runs and has been called once when it has ended.
C12_ClosedOncePerAttempt ==
    /\ pc \in {"idle", "connect", "loop", "done"} => ~sock_open
    /\ pc \in {"connect", "header", "data", "recv", "close"}
          => closes = 0 /\ "close" \notin ops
    /\ (pc \in {"loop", "done"} /\ attempts > 0)
          => closes = 1 /\ "close" \in ops

\* C12 witness: a call that ended after a retryable failure, a fatal
\* failure or a success of its second attempt
C12_Witness ==
    /\ pc = "done"
    /\ attempts = 2
    /\ prev = "parse"
    /\ cause \in {"send", "eof", "complete"}
    /\ closes = 1
    /\ ~sock_open

\* C13: a call with a NULL service, request or response returns
\* RC_NULL_PARAM and makes no attempt: connect, send, receive and close
\* are not called and the response buffer is as it was.
C13_NullParam ==
    nullarg # "none" =>
        /\ pc \in {"idle", "done"}
        /\ pc = "done" => ret = "RC_NULL_PARAM"
        /\ attempts = 0
        /\ ops = {}
        /\ closes = 0
        /\ ~sock_open
        /\ sent = << >>
        /\ received = << >>
        /\ response_context = NewContext(EmptyBuffer)

\* C13 witness: the call with a NULL response has returned
C13_Witness ==
    /\ pc = "done"
    /\ nullarg = "response"
    /\ ret = "RC_NULL_PARAM"

\* C19: an attempt whose connect failed sends nothing and receives
\* nothing, ends with RC_UTILS_SOCKET_CONNECT, calls close once, and is not
\* followed by another attempt.
C19_ConnectFailure ==
    /\ cause = "connect" =>
          /\ pc \in {"close", "loop", "done"}
          /\ ops \subseteq {"connect", "close"}
          /\ sent = << >>
          /\ received = << >>
          /\ result = "RC_UTILS_SOCKET_CONNECT"
          /\ ~RetryWanted(result, retry)
          /\ pc \in {"loop", "done"}
                => closes = 1 /\ "close" \in ops /\ ret = result
    /\ prev # "connect"

\* C19 witness: the call has returned after the connect of a retry failed
C19_Witness ==
    /\ pc = "done"
    /\ cause = "connect"
    /\ attempts = 2
    /\ ret = "RC_UTILS_SOCKET_CONNECT"
    /\ ops = {"connect", "close"}

\* the header send reported fewer bytes than the header block has
HeaderShort ==
    pc \in {"data", "recv"} /\ Len(sent) < Len(header_template(obj_len))

\* C16: a call that has not returned can always take a step that changes
\* its state, whatever the transport does: it never hangs.
C16_NeverHangs ==
    (pc # "done" /\ ~send_failed /\ ~HeaderShort) => ENABLED <<Next>>_vars

\* the bytes sent so far are a beginning of the header block followed by
\* the first ptr bytes of the body
SentFromStart ==
    /\ ptr + data_length = obj_len
    /\ \E k \in 0..Len(header_template(obj_len)) :
          sent = SubSeq(header_template(obj_len), 1, k)
                     \o SubSeq(BodyOf(obj_len), 1, ptr)

C18_OperationOrder ==
    /\ pc = "header" => ops = {"connect"}
    /\ pc = "data" =>
          /\ "send_header" \in ops
          /\ ops \cap {"recv", "close"} = {}
    /\ "send_data" \in ops => "send_header" \in ops
    /\ (pc = "recv" \/ "recv" \in ops) =>
          /\ pc \in {"recv", "close", "loop", "done"}
          /\ "send_header" \in ops
          /\ "send_data" \in ops \/ obj_len = 0
          /\ ptr = obj_len
          /\ SentFromStart
    /\ pc = "recv" => "close" \notin ops
    /\ "close" \in ops => pc \in {"loop", "done"}

\* C18 witness: an attempt that sent a header and a body, received a
\* response and closed
C18_Witness ==
    /\ pc = "done"
    /\ ret = "RC_OK"
    /\ obj_len = MaxBody
    /\ RequestSent
    /\ ops = {"connect", "send_header", "send_data", "recv", "close"}

====
